---------------------------- MODULE Spec2Model ----------------------------
(***************************************************************************)
(* Model of the svpwm repository: the table-mode circle limitation         *)
(* (circle_limitation.c), the reverse Park S-function (MCM_Rev_Park.c)     *)
(* and the space-vector PWM S-function with its carrier state (svpwm.c).   *)
(*                                                                         *)
(* Integers are kept inside 32 bits: a value that needs more (the sum of   *)
(* two 16-bit squares reaches 2^31) is a record [hi, lo] meaning           *)
(* hi * 65536 + lo with lo in 0..65535.                                    *)
(***************************************************************************)
EXTENDS Integers, Sequences, FiniteSets

VARIABLES
    pc,       \* position of the host's call sequence
    Vqd,      \* qd_t argument passed to Circle_Limitation
    lim,      \* locals and return value of the last Circle_Limitation call
    park,     \* output port of MCM_Rev_Park (y[0], y[1]) and its inputs
    x,        \* svpwm continuous state x[0]
    y,        \* output port of svpwm (y[0..8]) and the locals behind it
    Vbus,     \* svpwm parameter 0
    Ts,       \* svpwm parameter 1
    u1,       \* svpwm input port 1 at the last integration step
    dt,       \* length of the last integration step
    integral, \* history: sum of dt * (u - 0.5) over the steps so far
    now,      \* simulation time, followed when a pulse generator drives port 1
    period    \* period of that pulse generator (0: none attached)

vars == <<pc, Vqd, lim, park, x, y, Vbus, Ts, u1, dt, integral, now, period>>

---------------------------------------------------------------------------
(* Machine integers *)

Int16 == -32768..32767

Abs(n) == IF n < 0 THEN -n ELSE n

Sign(n) == IF n > 0 THEN 1 ELSE IF n < 0 THEN -1 ELSE 0

\* C integer division: the quotient truncated toward zero.
TruncDiv(n, m) == IF n >= 0 THEN n \div m ELSE -((-n) \div m)

\* Conversion of an in-range int to int16_t (two's complement wrap).
ToInt16(n) == ((n + 32768) % 65536) - 32768

\* A wide integer hi * 65536 + lo.
Wide(hi, lo) == [hi |-> hi, lo |-> lo]

WideOf(n) == Wide(n \div 65536, n % 65536)

WideAdd(a, b) ==
    Wide(a.hi + b.hi + ((a.lo + b.lo) \div 65536), (a.lo + b.lo) % 65536)

WideGt(a, b) == a.hi > b.hi \/ (a.hi = b.hi /\ a.lo > b.lo)

\* (uint32_t) of a wide value: reduction modulo 2^32.
ToUint32(w) == Wide(w.hi % 65536, w.lo)

\* The int32_t range -2^31 .. 2^31 - 1.
InInt32(w) == w.hi >= -32768 /\ w.hi <= 32767

---------------------------------------------------------------------------
(* circle_limitation.h *)

START_INDEX == 56

MAX_MODULE == 30800

MMITABLE ==
    << 32607, 32293, 31988, 31691, 31546, 31261, 30984, 30714, 30451, 30322,
       30069, 29822, 29581, 29346, 29231, 29004, 28782, 28565, 28353, 28249,
       28044, 27843, 27647, 27455, 27360, 27174, 26991, 26812, 26724, 26550,
       26380, 26213, 26049, 25968, 25808, 25652, 25498, 25347, 25272, 25125,
       24981, 24839, 24699, 24630, 24494, 24360, 24228, 24098, 24034, 23908,
       23783, 23660, 23600, 23480, 23361, 23245, 23131, 23074, 22962, 22851,
       22742, 22635, 22582, 22477, 22373, 22271, 22170, 22120, 22021, 21924,
       21827, 21732 >>

\* uint16_t Circle_limit_table[87]
TableLen == 87

\* The handle instance: the initializer supplies Len(MMITABLE) entries and
\* the remaining elements of the array are zero-initialized.
CircleLimitationM1 ==
    [ MaxModule          |-> MAX_MODULE,
      Circle_limit_table |-> [i \in 0..(TableLen - 1) |->
                                 IF i < Len(MMITABLE) THEN MMITABLE[i + 1] ELSE 0],
      Start_index        |-> START_INDEX ]

---------------------------------------------------------------------------
(* circle_limitation.c, table mode (CIRCLE_LIMITATION_VD is not defined) *)

\* The mathematical value of q*q + d*d.
SumSq(q, d) == WideAdd(WideOf(q * q), WideOf(d * d))

\* sw_temp = (int32_t)q * q + (int32_t)d * d.  When the sum does not fit
\* int32_t the addition is undefined behaviour: the build either wraps the
\* result modulo 2^32 or carries the unwrapped sum in a wider register.
sw_temp_outcomes(q, d) ==
    LET s == SumSq(q, d)
    IN  IF InInt32(s) THEN {s} ELSE {Wide(s.hi - 65536, s.lo), s}

\* Variant: the limit itself counted as over the limit (>= for >).
OverLimit_ge(pHandle, uw_temp) ==
    ~WideGt(WideOf(pHandle.MaxModule * pHandle.MaxModule), uw_temp)

\* if ( uw_temp > ( uint32_t )( pHandle->MaxModule ) * pHandle->MaxModule )
OverLimit(pHandle, uw_temp) ==
    WideGt(uw_temp, WideOf(pHandle.MaxModule * pHandle.MaxModule))

\* uw_temp /= 16777216; uw_temp -= Start_index; index (uint8_t)uw_temp
TableIndex(pHandle, uw_temp) ==
    (((uw_temp.hi \div 256) - pHandle.Start_index) % 65536) % 256

\* Variant: the product divided by 16384 instead of 32768.
Scale_by16384(v, table_element) == ToInt16(TruncDiv(v * table_element, 16384))

\* Variant: an arithmetic shift (rounding toward minus infinity) in place of
\* the division.
Scale_shift(v, table_element) == ToInt16((v * table_element) \div 32768)

\* sw_temp = v * (int32_t)table_element; (int16_t)(sw_temp / 32768)
Scale(v, table_element) == ToInt16(TruncDiv(v * table_element, 32768))

\* NoLookup marks a call that returned before any table access.
NoLookup == -1

\* The call with the signed sum sw: returned vector and the locals.  An
\* index beyond the array reads no defined element (marked by element -1).
Circle_Limitation(pHandle, V, sw) ==
    LET uw  == ToUint32(sw)
        idx == TableIndex(pHandle, uw)
        te  == IF idx < TableLen THEN pHandle.Circle_limit_table[idx] ELSE -1
    IN  IF OverLimit(pHandle, uw)
        THEN [q |-> Scale(V.q, te), d |-> Scale(V.d, te),
              sw_temp |-> sw, uw_temp |-> uw, index |-> idx, table_element |-> te]
        ELSE [q |-> V.q, d |-> V.d,
              sw_temp |-> sw, uw_temp |-> uw, index |-> NoLookup, table_element |-> NoLookup]

NotCalled == [q |-> 0, d |-> 0, sw_temp |-> WideOf(0), uw_temp |-> WideOf(0),
              index |-> NoLookup, table_element |-> NoLookup]

---------------------------------------------------------------------------
(* Real arithmetic of the S-functions.                                     *)
(*                                                                         *)
(* A real_T value is a record [a, b, den, nz, r].  (a + b*sqrt(3)) / den,  *)
(* den > 0, is the number the double approximates; r is its rounding: the  *)
(* double lies below (-1), on (0) or above (1) that number, by less than   *)
(* any difference between two such numbers.  r is recorded only where the  *)
(* number lies on the boundary the code compares the double with, because  *)
(* elsewhere the rounding decides nothing; it is then any of the three     *)
(* unless the computation is exact.  nz is the IEEE sign of a zero.        *)

R3(a, b, den) == [a |-> a, b |-> b, den |-> den, nz |-> FALSE, r |-> 0]

\* An integer converted to real_T.
R3Int(n) == R3(n, 0, 1)

\* F applied to operands that are evaluated once, before F.
Bind1(F(_), v) == CHOOSE r \in {F(t) : t \in {v}} : TRUE

Bind2(F(_, _), v, w) == CHOOSE r \in {F(s, t) : s \in {v}, t \in {w}} : TRUE

\* The approximated number is zero.
OnZero(v) == v.a = 0 /\ v.b = 0

\* The double is zero (of either sign).
IsZero(v) == OnZero(v) /\ v.r = 0

\* p*p > 3*q*q for naturals p, q, by digits of base 8192 (no 32-bit overflow
\* for p, q below 2*10^8).
Gt3(p, q) ==
    LET B  == 8192
        p1 == p \div B
        p0 == p % B
        q1 == q \div B
        q0 == q % B
        e0 == (p0 * p0) - (3 * q0 * q0)
        e1 == (2 * p1 * p0) - (6 * q1 * q0) + (e0 \div B)
        e2 == (p1 * p1) - (3 * q1 * q1) + (e1 \div B)
    IN  e2 > 0 \/ (e2 = 0 /\ ((e1 % B) > 0 \/ (e0 % B) > 0))

\* The sign of the double: -1, 0 or 1 (a zero of either sign is 0).
SignOf(v) ==
    IF OnZero(v) THEN v.r
    ELSE IF v.a >= 0 /\ v.b >= 0 THEN 1
    ELSE IF v.a <= 0 /\ v.b <= 0 THEN -1
    ELSE IF v.a > 0 THEN (IF Gt3(v.a, -v.b) THEN 1 ELSE -1)
    ELSE (IF Gt3(-v.a, v.b) THEN -1 ELSE 1)

R3Sign(v) == Bind1(SignOf, v)

\* The IEEE sign bit.
SignBit(v) == IF IsZero(v) THEN v.nz ELSE SignOf(v) < 0

\* The same value over the denominator den, a multiple of v.den.
Rescale(v, den) ==
    [v EXCEPT !.a = v.a * (den \div v.den), !.b = v.b * (den \div v.den), !.den = den]

CommonDen(v, w) ==
    IF v.den % w.den = 0 THEN v.den
    ELSE IF w.den % v.den = 0 THEN w.den
    ELSE v.den * w.den

\* v + w.  A zero sum is -0 only when both terms are -0.  The sum of two
\* rounded zeros, or of a rounded zero and a zero, lies on the side of its
\* terms; opposite terms (x - x) give +0.
Sum(v, w) ==
    LET den == CommonDen(v, w)
    IN  [a |-> Rescale(v, den).a + Rescale(w, den).a,
         b |-> Rescale(v, den).b + Rescale(w, den).b,
         den |-> den,
         nz |-> IsZero(v) /\ IsZero(w) /\ v.nz /\ w.nz,
         r |-> IF OnZero(v) /\ OnZero(w) THEN Sign(v.r + w.r) ELSE 0]

R3Add(v, w) == Bind2(Sum, v, w)

Negated(v) ==
    [v EXCEPT !.a = -v.a, !.b = -v.b, !.nz = IsZero(v) /\ ~v.nz, !.r = -v.r]

R3Neg(v) == Bind1(Negated, v)

R3Sub(v, w) == R3Add(v, R3Neg(w))

\* v * w.  A zero product carries the xor of the signs of the factors; the
\* product of a rounded zero and a non-zero factor is a rounded zero on the
\* side their signs give.
Product(v, w) ==
    [a |-> (v.a * w.a) + (3 * v.b * w.b),
     b |-> (v.a * w.b) + (v.b * w.a),
     den |-> v.den * w.den,
     nz |-> (IsZero(v) \/ IsZero(w)) /\ (SignBit(v) # SignBit(w)),
     r |-> IF OnZero(v) \/ OnZero(w) THEN SignOf(v) * SignOf(w) ELSE 0]

R3Mul(v, w) == Bind2(Product, v, w)

\* v / n for a positive integer n (the sign of a zero is kept).
Quotient(v, n) == [v EXCEPT !.den = v.den * n]

R3DivInt(v, n) == Bind2(Quotient, v, n)

\* fabs(v)
Magnitude(v) == IF SignOf(v) < 0 THEN Negated(v) ELSE [v EXCEPT !.nz = FALSE]

R3Abs(v) == Bind1(Magnitude, v)

\* The order of the approximated numbers: -1, 0 or 1.
Compare(v, w) == R3Sign(R3Sub([v EXCEPT !.r = 0], [w EXCEPT !.r = 0]))

\* v > w as doubles.
R3Gt(v, w) == \E c \in {Compare(v, w)} : c > 0 \/ (c = 0 /\ v.r > w.r)

\* v == w as doubles.
R3Eq(v, w) == Compare(v, w) = 0 /\ v.r = w.r

\* v and w approximate the same number (they are equal within rounding).
R3Near(v, w) == Compare(v, w) = 0

\* The double that approximates v with rounding s.
Round(v, s) == [v EXCEPT !.r = s]

\* The roundings recorded for a computed value v that the code compares
\* with the boundary: 0 when the computation is exact or v is off the
\* boundary, any of the three otherwise.
Roundings(v, exact, boundary) ==
    IF exact \/ ~R3Near(v, boundary) THEN {0} ELSE {-1, 0, 1}

\* cos and sin of the angle k * 30 degrees (k any integer).
Cos30(k) ==
    LET m == k % 12
    IN  CASE m = 0 -> R3(2, 0, 2)
          [] m \in {1, 11} -> R3(0, 1, 2)
          [] m \in {2, 10} -> R3(1, 0, 2)
          [] m \in {3, 9}  -> R3(0, 0, 2)
          [] m \in {4, 8}  -> R3(-1, 0, 2)
          [] m \in {5, 7}  -> R3(0, -1, 2)
          [] m = 6 -> R3(-2, 0, 2)

Sin30(k) == Cos30(k - 3)

\* atan2(Vb, Va) in degrees, reported to a resolution of 30 degrees as a
\* half-step code c in -12..12: c = 2*j means exactly j*30 degrees, and
\* c = 2*j + 1 means strictly between j*30 and (j+1)*30 degrees.  The
\* zero cases follow IEEE: atan2(+-0, x) is +-0 for x > 0 or x = +0 and
\* +-180 degrees for x < 0 or x = -0.  For a Vb that is a rounded zero the
\* code is the one of the zero with its sign; the double is within rounding
\* of it (see DegOutcomes); a rounded zero Va leaves the angle within
\* rounding of +-90 degrees.
Atan2Upper(Vb, Va) ==
    LET s     == [k \in 1..5 |->
                     Compare(R3Mul(Cos30(k), Vb), R3Mul(Sin30(k), Va))]
        m(t)  == Cardinality({k \in 1..5 : t[k] >= 0})
        code(t) == IF \E k \in 1..5 : t[k] = 0 THEN 2 * m(t) ELSE (2 * m(t)) + 1
    IN  Bind1(code, s)

Atan2Of(Vb, Va) ==
    IF OnZero(Vb)
    THEN IF SignBit(Va) THEN (IF SignBit(Vb) THEN -12 ELSE 12) ELSE 0
    ELSE IF SignOf(Vb) > 0 THEN Atan2Upper(Vb, Va)
    ELSE -Atan2Upper(Negated(Vb), Va)

Atan2(Vb, Va) == Bind2(Atan2Of, Vb, Va)

---------------------------------------------------------------------------
(* MCM_Rev_Park.c *)

\* Vqd.q = Vqs: a real_T given in halves, converted to int16_t (the
\* fraction is discarded, toward zero).
RealToInt16(v2) == ToInt16(TruncDiv(v2, 2))

\* cos(theta) for theta = k*PI/6 (k in 0..11) where the exact cosine is
\* 0: the double is 6.1e-17 at k = 3 and -1.8e-16 at k = 9.
CosRound(k) == CASE k = 3 -> 1 [] k = 9 -> -1 [] OTHER -> 0

\* sin(theta) where the exact sine is 0: the double is 0.0 at theta = 0.0
\* and 1.2e-16 at k = 6.
SinRound(k) == IF k = 6 THEN 1 ELSE 0

\* The doubles cos(theta) and sin(theta): a rounded zero has a sign, which
\* it gives to its product with a zero component.
CosTheta(k) == Round(Cos30(k), CosRound(k))

SinTheta(k) == Round(Sin30(k), SinRound(k))

\* y[0] = Vqd.q*cos(theta) + Vqd.d*sin(theta); theta = k * 30 degrees.
Valpha(V, k) ==
    R3Add(R3Mul(R3Int(V.q), CosTheta(k)), R3Mul(R3Int(V.d), SinTheta(k)))

\* y[1] = -Vqd.q*sin(theta) + Vqd.d*cos(theta)
Vbeta(V, k) ==
    R3Add(R3Mul(R3Int(-V.q), SinTheta(k)), R3Mul(R3Int(V.d), CosTheta(k)))

---------------------------------------------------------------------------
(* svpwm.c *)

NUM_CSTATES == 1

NUM_DSTATES == 0

\* ssSetNumRWork, ssSetNumIWork, ssSetNumPWork, ssSetNumModes of svpwm
svpwm_NumWork == <<0, 0, 0, 0>>

\* ssSetNumContStates, ssSetNumDiscStates, ssSetNumRWork, ssSetNumIWork,
\* ssSetNumPWork, ssSetNumModes of MCM_Rev_Park
RevPark_NumStates == <<0, 0, 0, 0, 0, 0>>

\* mdlInitializeConditions: *x0++ = 0.0 for each continuous state.
mdlInitializeConditions == R3Int(0)

\* The ramp scaled by 2.0 instead of 4.0.
Ramp_by2(xs) == R3Mul(R3Int(2), xs)

\* real_T ramp = 4.0*x[0]
Ramp(xs) == R3Mul(R3Int(4), xs)

\* Ui0(k) / (pow(2.0,14))
Descale(v) == R3DivInt(v, 16384)

\* deg = angle * 180.0/PI: the half-step code counts units of PI/12, so an
\* even code gives its multiple of 30 degrees and an odd code gives the
\* middle of the open interval of 30 degrees it stands for.
ToDegrees(angle) == (angle * 180) \div 12

\* The doubles deg can be for the angle code atan2 gave.  A double that
\* is not a multiple of 30 is given as an integer strictly inside its
\* interval of 30 degrees: 15*c for an odd code, and one degree beside a
\* multiple of 60 for a value beside that boundary of the range tests.
\* For a zero Vb angle and deg are exact (+-0, +-180).  For a rounded zero
\* Vb the angle is beside 0 on the side of Vb when Va > 0, and rounds to
\* +-PI, deg to +-180.0, when Va < 0.  At +-60 and +-120 degrees angle and
\* deg are rounded and deg falls on the boundary or on either side of it.
DegOutcomes(angle, Vb) ==
    IF IsZero(Vb) THEN {ToDegrees(angle)}
    ELSE IF OnZero(Vb) THEN (IF angle = 0 THEN {Vb.r} ELSE {ToDegrees(angle)})
    ELSE IF angle % 4 # 0 THEN {ToDegrees(angle)}
    ELSE {ToDegrees(angle) + s : s \in {-1, 0, 1}}

\* The range tests with the fifth one strict at -120 degrees.
RangeTests_strict(deg) ==
    << deg >= 0 /\ deg <= 60,
       deg > 60 /\ deg <= 120,
       deg > 120 /\ deg <= 180,
       deg < -120 /\ deg > -180,
       deg < -60 /\ deg > -120,
       deg < 0 /\ deg >= -60 >>

\* The six range tests of the sector if-chain, in the order of the code.
RangeTests(deg) ==
    << deg >= 0 /\ deg <= 60,
       deg > 60 /\ deg <= 120,
       deg > 120 /\ deg <= 180,
       deg < -120 /\ deg > -180,
       deg < -60 /\ deg >= -120,
       deg < 0 /\ deg >= -60 >>

\* compute sector number [1..6]; the final else gives 1.
Sector(deg) ==
    LET t == RangeTests(deg)
    IN  IF t[1] THEN 1
        ELSE IF t[2] THEN 2
        ELSE IF t[3] THEN 3
        ELSE IF t[4] THEN 4
        ELSE IF t[5] THEN 5
        ELSE IF t[6] THEN 6
        ELSE 1

\* Mi*cos(angle) and Mi*sin(angle) with angle = atan2(Vb, Va) and
\* Mi = sqrt(Vb*Vb + Va*Va): the components themselves.
MiCos(Va, Vb) == Va

MiSin(Va, Vb) == Vb

\* Mi = sqrt(Vb*Vb + Va*Va) is zero exactly when both components are.
MiIsZero(Va, Vb) == IsZero(Va) /\ IsZero(Vb)

\* 2.0/sqrt(3) = 2*sqrt(3)/3
TwoOverSqrt3 == R3(0, 2, 3)

\* Mi is +0.0 or positive; where a dwell fraction is a zero only the sign
\* of Mi enters it.
MiSign(Va, Vb) == IF MiIsZero(Va, Vb) THEN R3Int(0) ELSE R3Int(1)

\* sin(m*PI/3.0) and cos(m*PI/3.0) for m = n or n - 1.0, as doubles:
\* sin(0.0) is 0.0, sin(PI) is 1.2e-16 and sin(2*PI) is -2.4e-16.
SinSector(m) == Round(Sin30(2 * m), CASE m = 3 -> 1 [] m = 6 -> -1 [] OTHER -> 0)

CosSector(m) == Cos30(2 * m)

\* cos(angle) and sin(angle) as doubles for an angle of +-0.0 or +-PI
\* (codes 0, 12, -12): cos is 1.0 or -1.0, sin(+-0.0) is +-0.0 and
\* sin(+-PI) is +-1.2e-16.  The angle is -0.0 when Vb is.
CosAngle(angle) == Cos30(angle \div 2)

SinAngle(angle, Vb) ==
    IF angle = 0 THEN [R3Int(0) EXCEPT !.nz = SignBit(Vb)]
    ELSE Round(R3Int(0), Sign(angle))

\* del1, del2 and del3 are computed exactly when Mi is 0.0 (every product
\* is a zero) or when angle is +-0.0 (sector 1: sin(angle) and sin(0.0) are
\* zeros, so del2 is a zero); otherwise they are rounded.
DwellExact(Va, Vb) == MiIsZero(Va, Vb) \/ (IsZero(Vb) /\ ~SignBit(Va))

\* (2.0/sqrt(3))*(Mi)*(bracket) where it is computed exactly and is a
\* zero: the zero with the sign of the bracket.  Elsewhere the number v
\* that the double approximates.
ZeroOf(v, bracket, Va, Vb) ==
    IF DwellExact(Va, Vb) /\ OnZero(v)
    THEN R3Mul(R3Mul(TwoOverSqrt3, MiSign(Va, Vb)), bracket)
    ELSE v

\* The bracket of del1 for an angle of +-0.0 or +-PI.
Bracket1(angle, Vb, n) ==
    R3Sub(R3Mul(CosAngle(angle), SinSector(n)), R3Mul(SinAngle(angle, Vb), CosSector(n)))

\* The bracket of del2 for an angle of +-0.0 or +-PI.
Bracket2(angle, Vb, n) ==
    R3Sub(R3Mul(SinAngle(angle, Vb), CosSector(n - 1)),
          R3Mul(CosAngle(angle), SinSector(n - 1)))

\* del1 = (2.0/sqrt(3))*(Mi)*(cos(angle)*sin(n*PI/3.0) - sin(angle)*cos(n*PI/3.0))
Del1(Va, Vb, angle, n) ==
    ZeroOf(R3Mul(TwoOverSqrt3,
                 R3Sub(R3Mul(MiCos(Va, Vb), SinSector(n)),
                       R3Mul(MiSin(Va, Vb), CosSector(n)))),
           Bracket1(angle, Vb, n), Va, Vb)

\* del2 = (2.0/sqrt(3))*(Mi)*(sin(angle)*cos((n-1.0)*PI/3.0) - cos(angle)*sin((n-1.0)*PI/3.0))
Del2(Va, Vb, angle, n) ==
    ZeroOf(R3Mul(TwoOverSqrt3,
                 R3Sub(R3Mul(MiSin(Va, Vb), CosSector(n - 1)),
                       R3Mul(MiCos(Va, Vb), SinSector(n - 1)))),
           Bracket2(angle, Vb, n), Va, Vb)

\* The doubles a dwell time of exact value t can be: the sign of a dwell
\* time is read (fabs, and the validity of the decomposition), so the
\* rounding is recorded where t is zero: a rounded zero on either side,
\* or a zero of either sign.
DwellOutcomes(t, Va, Vb) ==
    IF DwellExact(Va, Vb) \/ ~OnZero(t) THEN {t}
    ELSE {Round(t, -1), Round(t, 1)}
            \cup {[t EXCEPT !.r = 0, !.nz = b] : b \in BOOLEAN}

\* The doubles a switch time of exact value t can be: it is compared with
\* the ramp, so the rounding is recorded where t is the ramp.  The switch
\* times are exact when the dwell times are zeros.
SwitchOutcomes(t, ramp, Va, Vb) ==
    {Round(t, s) : s \in Roundings(t, MiIsZero(Va, Vb), ramp)}

\* td = (Tz)/2.0 is exact: half a rounded zero keeps its side of zero.
TdOutcomes(Tz, ramp, Va, Vb) ==
    IF OnZero(Tz)
    THEN {Round(R3DivInt(Tz, 2), IF R3Near(Tz, ramp) THEN Tz.r ELSE 0)}
    ELSE SwitchOutcomes(R3DivInt(Tz, 2), ramp, Va, Vb)

\* Floating-point addition is monotone: the double u of a + t is ordered
\* with the double v of a as t is ordered with zero.
MonotoneSum(u, v, t) ==
    /\ R3Sign(t) >= 0 => ~R3Gt(v, u)
    /\ R3Sign(t) <= 0 => ~R3Gt(u, v)

\* The doubles the sum a + t of exact value sum can be, a and t given.
AddOutcomes(sum, a, t, ramp, Va, Vb) ==
    {u \in SwitchOutcomes(sum, ramp, Va, Vb) : MonotoneSum(u, a, t)}

\* tb = T1 + td
TbOutcomes(T1, td, ramp, Va, Vb) ==
    AddOutcomes(R3Add(T1, td), td, T1, ramp, Va, Vb)

\* tc = T2 + td
TcOutcomes(T2, td, ramp, Va, Vb) ==
    AddOutcomes(R3Add(T2, td), td, T2, ramp, Va, Vb)

\* ta = T1 + T2 + td: (T1 + T2) + td is ordered with T2 + td as T1 + T2
\* with T2, and with T1 + td as T1 + T2 with T1.
TaOutcomes(T1, T2, td, tb, tc, ramp, Va, Vb) ==
    {u \in AddOutcomes(R3Add(R3Add(T1, T2), td), tc, T1, ramp, Va, Vb) :
        MonotoneSum(u, tb, T2)}

\* The zero-vector fraction with the second magnitude added.
Del3_plus(del1, del2) == R3Add(R3Sub(R3Int(1), R3Abs(del1)), R3Abs(del2))

\* del3 = 1.0 - fabs(del1) - fabs(del2)
Del3(del1, del2) == R3Sub(R3Sub(R3Int(1), R3Abs(del1)), R3Abs(del2))

\* A dwell time left as a fraction of the period.
Dwell_unscaled(del, ts) == del

\* T = del*(*Ts)
Dwell(del, ts) == R3Mul(del, R3Int(ts))

\* The gate mapping with the case of sector 1 repeated for sector 4.
GateTimes_sector4(sector, ta, tb, tc, td) ==
    CASE sector = 1 -> <<ta, tc, td>>
      [] sector = 2 -> <<tb, ta, td>>
      [] sector = 3 -> <<td, ta, tc>>
      [] sector = 4 -> <<ta, tc, td>>
      [] sector = 5 -> <<tc, td, ta>>
      [] sector = 6 -> <<ta, td, tb>>
      [] OTHER      -> <<ta, tc, td>>

\* gate switch times to appropriate half-bridge: <<sine1, sine2, sine3>>
GateTimes(sector, ta, tb, tc, td) ==
    CASE sector = 1 -> <<ta, tc, td>>
      [] sector = 2 -> <<tb, ta, td>>
      [] sector = 3 -> <<td, ta, tc>>
      [] sector = 4 -> <<td, tb, ta>>
      [] sector = 5 -> <<tc, td, ta>>
      [] sector = 6 -> <<ta, td, tb>>
      [] OTHER      -> <<ta, tc, td>>

\* The comparator with a non-strict comparison.
Comparator_ge(sine, ramp, vbus) == IF R3Gt(ramp, sine) THEN 0 ELSE vbus

\* if (sine > ramp) { U = *Vbus; } else U = 0.0;
Comparator(sine, ramp, vbus) == IF R3Gt(sine, ramp) THEN vbus ELSE 0

\* The derivative without the bias.
mdlDerivatives_nobias(u) == u

\* mdlDerivatives: dx[0] = Ui1(0) - 0.500
mdlDerivatives(u) == R3Sub(u, R3(1, 0, 2))

---------------------------------------------------------------------------
(* Bounds and input sets *)

\* Grid points per half axis of the 16-bit samples given to Circle_Limitation.
GridN == 8

\* The carrier is followed while 4*x[0] stays within 0..MaxRamp (the range
\* of a carrier of period MaxRamp driven by a pulse train).
MaxRamp == 4

\* Integration steps last 1..MaxDt time quanta.
MaxDt == 1

\* The largest r in lo..hi with r*r <= n (lo*lo <= n).
RECURSIVE IsqrtIn(_, _, _)
IsqrtIn(n, lo, hi) ==
    IF lo = hi THEN lo
    ELSE LET mid == (lo + hi + 1) \div 2
         IN  IF mid * mid <= n THEN IsqrtIn(n, mid, hi) ELSE IsqrtIn(n, lo, mid - 1)

Isqrt(n) == IsqrtIn(n, 0, 32768)

\* 16-bit samples: the ends of the range, the neighbours of zero and of
\* MaxModule, a regular grid, and for every bucket b of the squared
\* magnitude (b = sumSq / 2^24) the last point of the bucket on an axis
\* and on the diagonal.
Samples16 ==
    LET ends  == {-32768, -32767, -30801, -30800, -2, -1, 0, 1, 2, 30800, 30801, 32767}
        grid  == {(k * 32768) \div GridN : k \in (-GridN)..GridN}
        axis  == {Isqrt(((b + 1) * 16777216) - 1) : b \in 56..63}
        diag  == {Isqrt(((b + 1) * 8388608) - 1) : b \in 56..127}
    IN  (ends \cup grid \cup axis \cup diag \cup {-v : v \in axis \cup diag}) \cap Int16

\* Commanded vectors (Vqs, Vds) of the pipeline, in halves, and the
\* electrical angles theta = k * 30 degrees: the multiples of 60 degrees
\* and 270 degrees, where the cosine is a negative rounded zero.
ParkInputs ==
    { <<0, 0>>, <<1, -1>>, <<16384, 0>>, <<-16384, 0>>, <<16384, 4096>>,
      <<0, -8192>>, <<8192, 8192>>, <<65534, 65534>> }

Thetas == {0, 2, 4, 6, 8, 9, 10}

BusVoltages == {0, 24}

CarrierPeriods == {4}

\* Secondary input Ui1(0): a 0/1 pulse train.
PulseLevels == {0, 1}

\* Half periods of the pulse generator run from 1 to MaxHalf time quanta.
MaxHalf == 3

\* The pulse train is followed for MaxPeriods full periods.
MaxPeriods == 3

\* Ui1(0) at time t when a pulse generator of period p with 50% duty drives
\* port 1: high during the first half of each period.
PulseTrain(t, p) == IF 2 * (t % p) < p THEN 1 ELSE 0

\* Vectors held at input port 0 while the encoder runs under the pulse
\* train: the reverse Park outputs for the commanded vectors at theta = 0.
HeldPorts ==
    { [Vqs2 |-> in[1], Vds2 |-> in[2], theta |-> 0,
       y0 |-> Valpha(r, 0), y1 |-> Vbeta(r, 0)] :
         <<in, r>> \in
            { <<i, Circle_Limitation(CircleLimitationM1, V, SumSq(V.q, V.d))>> :
                <<i, V>> \in { <<j, [q |-> RealToInt16(j[1]), d |-> RealToInt16(j[2])]>> :
                                  j \in ParkInputs } } }

---------------------------------------------------------------------------
(* The host's call sequence *)

ParkIdle == [Vqs2 |-> 0, Vds2 |-> 0, theta |-> 0, y0 |-> R3Int(0), y1 |-> R3Int(0)]

YIdle ==
    [U |-> 0, V |-> 0, W |-> 0, angle |-> 0, deg |-> 0, sector |-> 0,
     ramp |-> R3Int(0),
     T1 |-> R3Int(0), T2 |-> R3Int(0), Tz |-> R3Int(0),
     MiZero |-> TRUE, tests |-> <<FALSE, FALSE, FALSE, FALSE, FALSE, FALSE>>,
     ta |-> R3Int(0), tb |-> R3Int(0), tc |-> R3Int(0), td |-> R3Int(0),
     sine1 |-> R3Int(0), sine2 |-> R3Int(0), sine3 |-> R3Int(0)]

\* Start of a run of the pipeline: mdlInitializeConditions has set x[0].
Init ==
    /\ pc = "park"
    /\ Vqd = [q |-> 0, d |-> 0]
    /\ lim = NotCalled
    /\ park = ParkIdle
    /\ x = mdlInitializeConditions
    /\ y = YIdle
    /\ Vbus \in BusVoltages
    /\ Ts \in CarrierPeriods
    /\ u1 = 0
    /\ dt = 0
    /\ integral = R3Int(0)
    /\ now = 0
    /\ period = 0

\* mdlOutputs of MCM_Rev_Park: convert, limit, rotate.
RevPark_mdlOutputs ==
    /\ pc = "park"
    /\ \E in \in ParkInputs, k \in Thetas :
       \E V \in {[q |-> RealToInt16(in[1]), d |-> RealToInt16(in[2])]} :
       \E sw \in sw_temp_outcomes(V.q, V.d) :
       \E r \in {Circle_Limitation(CircleLimitationM1, V, sw)} :
          /\ Vqd' = V
          /\ lim' = r
          /\ park' = [Vqs2 |-> in[1], Vds2 |-> in[2], theta |-> k,
                      y0 |-> Valpha(r, k), y1 |-> Vbeta(r, k)]
    /\ pc' = "svpwm"
    /\ UNCHANGED <<x, y, Vbus, Ts, u1, dt, integral, now, period>>

\* mdlOutputs of svpwm, local by local; its input port 0 is fed by the
\* reverse Park outputs.  y' holds the nine outputs and the locals.
Svpwm_mdlOutputs ==
    /\ pc = "svpwm"
    /\ \E ramp \in {Ramp(x)}, Va \in {Descale(park.y0)}, Vb \in {Descale(park.y1)} :
       \E angle \in {Atan2(Vb, Va)} :
       \E deg \in DegOutcomes(angle, Vb) :
       \E sector \in {Sector(deg)} :
       \E del1 \in {Del1(Va, Vb, angle, sector)},
          del2 \in {Del2(Va, Vb, angle, sector)} :
       \E del3 \in {Del3(del1, del2)} :
       \E T1 \in DwellOutcomes(Dwell(del1, Ts), Va, Vb),
          T2 \in DwellOutcomes(Dwell(del2, Ts), Va, Vb),
          Tz \in DwellOutcomes(Dwell(del3, Ts), Va, Vb) :
       \E td \in TdOutcomes(Tz, ramp, Va, Vb) :
       \E tb \in TbOutcomes(T1, td, ramp, Va, Vb),
          tc \in TcOutcomes(T2, td, ramp, Va, Vb) :
       \E ta \in TaOutcomes(T1, T2, td, tb, tc, ramp, Va, Vb) :
       \E sine \in {GateTimes(sector, ta, tb, tc, td)} :
          /\ y' = [U |-> Comparator(sine[1], ramp, Vbus),
                   V |-> Comparator(sine[2], ramp, Vbus),
                   W |-> Comparator(sine[3], ramp, Vbus),
                   angle |-> angle, deg |-> deg, sector |-> sector, ramp |-> ramp,
                   T1 |-> T1, T2 |-> T2, Tz |-> Tz,
                   MiZero |-> MiIsZero(Va, Vb), tests |-> RangeTests(deg),
                   ta |-> ta, tb |-> tb, tc |-> tc, td |-> td,
                   sine1 |-> sine[1], sine2 |-> sine[2], sine3 |-> sine[3]]
    /\ pc' = "integrate"
    /\ UNCHANGED <<Vqd, lim, park, x, Vbus, Ts, u1, dt, integral, now, period>>

\* One integration step of the host's solver over h time quanta, the
\* derivative given by mdlDerivatives.
Integrate ==
    /\ pc = "integrate"
    /\ \E u \in PulseLevels, h \in 1..MaxDt :
       \E xn \in {R3Add(x, R3Mul(R3Int(h), mdlDerivatives(R3Int(u))))} :
          /\ ~R3Gt(R3Int(0), Ramp(xn))
          /\ ~R3Gt(Ramp(xn), R3Int(MaxRamp))
          /\ x' = xn
          /\ u1' = u
          /\ dt' = h
          /\ integral' = R3Add(integral, R3(((2 * u) - 1) * h, 0, 2))
    /\ pc' = "park"
    /\ UNCHANGED <<Vqd, lim, park, y, Vbus, Ts, now, period>>

Next == RevPark_mdlOutputs \/ Svpwm_mdlOutputs \/ Integrate

Spec == Init /\ [][Next]_vars

\* Circle_Limitation alone, called once on a 16-bit vector.
InitCL ==
    /\ pc = "cl_call"
    /\ Vqd \in [q : Samples16, d : Samples16]
    /\ lim = NotCalled
    /\ park = ParkIdle
    /\ x = mdlInitializeConditions
    /\ y = YIdle
    /\ Vbus = 0
    /\ Ts = 0
    /\ u1 = 0
    /\ dt = 0
    /\ integral = R3Int(0)
    /\ now = 0
    /\ period = 0

CallCircleLimitation ==
    /\ pc = "cl_call"
    /\ \E sw \in sw_temp_outcomes(Vqd.q, Vqd.d) :
         lim' = Circle_Limitation(CircleLimitationM1, Vqd, sw)
    /\ pc' = "cl_ret"
    /\ UNCHANGED <<Vqd, park, x, y, Vbus, Ts, u1, dt, integral, now, period>>

NextCL == CallCircleLimitation

SpecCL == InitCL /\ [][NextCL]_vars

\* The encoder alone, its port 1 driven by a pulse generator whose edges
\* fall on sample hits, so that Ui1(0) is constant over every step.
InitPulse ==
    /\ pc = "svpwm"
    /\ Vqd = [q |-> 0, d |-> 0]
    /\ lim = NotCalled
    /\ park \in HeldPorts
    /\ x = mdlInitializeConditions
    /\ y = YIdle
    /\ Vbus \in BusVoltages
    /\ Ts \in CarrierPeriods
    /\ u1 = 0
    /\ dt = 0
    /\ integral = R3Int(0)
    /\ now = 0
    /\ period \in {2 * half : half \in 1..MaxHalf}

\* One integration step over h time quanta inside one half period, the
\* derivative given by mdlDerivatives on the pulse generator's level.
IntegratePulse ==
    /\ pc = "integrate"
    /\ now < MaxPeriods * period
    /\ \E h \in 1..MaxDt :
       \E u \in {PulseTrain(now, period)} :
       \E xn \in {R3Add(x, R3Mul(R3Int(h), mdlDerivatives(R3Int(u))))} :
          /\ (now % (period \div 2)) + h <= period \div 2
          /\ x' = xn
          /\ u1' = u
          /\ dt' = h
          /\ integral' = R3Add(integral, R3(((2 * u) - 1) * h, 0, 2))
          /\ now' = now + h
    /\ pc' = "svpwm"
    /\ UNCHANGED <<Vqd, lim, park, y, Vbus, Ts, period>>

NextPulse == Svpwm_mdlOutputs \/ IntegratePulse

SpecPulse == InitPulse /\ [][NextPulse]_vars

---------------------------------------------------------------------------
(* Properties of Circle_Limitation (specification SpecCL) *)

Returned == pc = "cl_ret"

\* The input of the call is over the limit: q*q + d*d > MaxModule^2.
InputOver == WideGt(SumSq(Vqd.q, Vqd.d), WideOf(MAX_MODULE * MAX_MODULE))

\* C1: for every 16-bit input over the limit the returned vector lies in
\* the circle, q'*q' + d'*d' <= MaxModule^2, and its squared magnitude is
\* strictly smaller than the input's.
C1_OverLimitReturnsInsideCircle ==
    (Returned /\ InputOver) =>
        /\ ~WideGt(SumSq(lim.q, lim.d), WideOf(MAX_MODULE * MAX_MODULE))
        /\ WideGt(SumSq(Vqd.q, Vqd.d), SumSq(lim.q, lim.d))

\* The corner q = d = 32767 has been limited by a table coefficient.
C1_Witness ==
    /\ Returned
    /\ Vqd = [q |-> 32767, d |-> 32767]
    /\ lim.index = 127 - START_INDEX
    /\ lim.q = TruncDiv(32767 * MMITABLE[Len(MMITABLE)], 32768)
    /\ lim.q = lim.d

\* C2: an input with q*q + d*d <= MaxModule^2 is returned unchanged and
\* no table element is read; the boundary is inclusive.
C2_InsideCircleUnchanged ==
    (Returned /\ ~InputOver) =>
        /\ lim.q = Vqd.q
        /\ lim.d = Vqd.d
        /\ lim.index = NoLookup
        /\ lim.table_element = NoLookup

\* The vector of magnitude exactly MaxModule has passed through.
C2_Witness ==
    /\ Returned
    /\ Vqd = [q |-> MAX_MODULE, d |-> 0]
    /\ lim.q = MAX_MODULE
    /\ lim.d = 0
    /\ lim.index = NoLookup

\* C3 as stated: for every input over the limit each returned component
\* has the sign (-1, 0, +1) of the input component.
C3_SignsEqual ==
    (Returned /\ InputOver) =>
        /\ Sign(lim.q) = Sign(Vqd.q)
        /\ Sign(lim.d) = Sign(Vqd.d)

\* C3 amended: for every input over the limit each returned component is
\* zero or has the sign of the input component (no sign is flipped), and
\* it is zero exactly when |component| * k < 32768 for the coefficient k
\* that was read.
C3_SignKeptOrZero ==
    (Returned /\ InputOver) =>
        /\ Sign(lim.q) =
             IF Abs(Vqd.q) * lim.table_element >= 32768 THEN Sign(Vqd.q) ELSE 0
        /\ Sign(lim.d) =
             IF Abs(Vqd.d) * lim.table_element >= 32768 THEN Sign(Vqd.d) ELSE 0

\* A non-zero component of an over-limit input has been truncated to zero
\* by a non-zero coefficient.
C3_Witness ==
    /\ Returned
    /\ InputOver
    /\ Vqd.q = -1
    /\ lim.table_element > 0
    /\ lim.q = 0
    /\ lim.d # 0

\* C9: for every input over the limit the table index lies in
\* 0..(127 - Start_index), inside the coefficients that MMITABLE supplies,
\* and the element read is non-zero.
C9_IndexInsideSuppliedTable ==
    (Returned /\ InputOver) =>
        /\ lim.index \in 0..(127 - START_INDEX)
        /\ lim.index < Len(MMITABLE)
        /\ lim.index < TableLen
        /\ lim.table_element # 0

\* C10: the 32-bit signed sum of the two squares does not overflow: it is
\* the mathematical sum, within 0..2^31-1, and so is the unsigned value
\* that is compared.
C10_SumFitsInt32 ==
    Returned =>
        /\ InInt32(SumSq(Vqd.q, Vqd.d))
        /\ lim.sw_temp = SumSq(Vqd.q, Vqd.d)
        /\ lim.sw_temp.hi >= 0
        /\ lim.uw_temp = SumSq(Vqd.q, Vqd.d)

---------------------------------------------------------------------------
(* Properties of the pipeline (specification Spec) *)

\* The encoder has computed this tick's outputs; the integration step of
\* the tick has not yet been taken.
Encoded == pc = "integrate"

Thresholds == <<y.sine1, y.sine2, y.sine3>>

Phases == <<y.U, y.V, y.W>>

\* C4 as stated: each phase output is 0 or busVoltage, and a phase is
\* busVoltage if and only if its threshold is strictly greater than the
\* carrier value reported in the same tick.
C4_PhaseIsBusIffAbove ==
    Encoded =>
        /\ R3Eq(y.ramp, Ramp(x))
        /\ \A i \in 1..3 :
              /\ Phases[i] \in {0, Vbus}
              /\ (Phases[i] = Vbus) <=> R3Gt(Thresholds[i], y.ramp)

\* C4 amended: each phase output is busVoltage when its threshold is
\* strictly greater than the carrier value reported in the same tick and
\* 0 otherwise (so it is 0 or busVoltage); the equivalence with
\* "phase = busVoltage" holds whenever busVoltage is not 0.
C4_PhaseIsBusWhenAbove ==
    Encoded =>
        /\ R3Eq(y.ramp, Ramp(x))
        /\ \A i \in 1..3 :
              /\ Phases[i] \in {0, Vbus}
              /\ Phases[i] = IF R3Gt(Thresholds[i], y.ramp) THEN Vbus ELSE 0
              /\ (Vbus # 0) =>
                    ((Phases[i] = Vbus) <=> R3Gt(Thresholds[i], y.ramp))

\* With a non-zero bus voltage and the zero vector, the three thresholds
\* are carrierPeriod/2 exactly; the carrier has reached them and the
\* phases are 0.
C4_Witness ==
    /\ Encoded
    /\ Vbus # 0
    /\ y.MiZero
    /\ \A i \in 1..3 : R3Eq(Thresholds[i], y.ramp) /\ Phases[i] = 0

\* The sector named for an angle in degrees.
SectorOfDegrees(deg) ==
    CASE deg >= 0 /\ deg <= 60 -> 1
      [] deg > 60 /\ deg <= 120 -> 2
      [] deg > 120 /\ deg <= 180 -> 3
      [] deg > -180 /\ deg < -120 -> 4
      [] deg >= -120 /\ deg < -60 -> 5
      [] deg >= -60 /\ deg < 0 -> 6
      [] OTHER -> 0

\* C5: for every angle with -180 < deg <= 180 exactly one of the six range
\* tests is true, the sector is 1 for [0,60], 2 for (60,120], 3 for
\* (120,180], 4 for (-180,-120), 5 for [-120,-60), 6 for [-60,0), the
\* fallback is not taken, and the sector is always in 1..6.
C5_SectorExhaustiveNonOverlapping ==
    Encoded =>
        /\ y.sector \in 1..6
        /\ y.deg \in DegOutcomes(y.angle, Descale(park.y1))
        /\ (y.deg > -180 /\ y.deg <= 180) =>
              /\ Cardinality({i \in 1..6 : y.tests[i]}) = 1
              /\ y.tests[y.sector]
              /\ y.sector = SectorOfDegrees(y.deg)

\* The inclusive end of the range: a vector along the negative alpha axis
\* with Vb = +0.0 gives 180 degrees, classified as sector 3.
C5_Witness ==
    /\ Encoded
    /\ Vqd = [q |-> -8192, d |-> 0]
    /\ park.theta = 0
    /\ y.deg = 180
    /\ y.sector = 3
    /\ y.tests = <<FALSE, FALSE, TRUE, FALSE, FALSE, FALSE>>

\* T1 >= 0, T2 >= 0 and Tz >= 0.
ValidDwell ==
    /\ R3Sign(y.T1) >= 0
    /\ R3Sign(y.T2) >= 0
    /\ R3Sign(y.Tz) >= 0

\* C6: Tz = (1 - |del1| - |del2|)*Ts with T1 = del1*Ts and T2 = del2*Ts,
\* and for valid dwell times T1 + T2 + Tz = carrierPeriod, in every sector;
\* the equalities are within the rounding of the doubles.
C6_DwellTimesSumToPeriod ==
    Encoded =>
        /\ R3Near(y.Tz, R3Sub(R3Sub(R3Int(Ts), R3Abs(y.T1)), R3Abs(y.T2)))
        /\ ValidDwell =>
              R3Near(R3Add(R3Add(y.T1, y.T2), y.Tz), R3Int(Ts))

\* Three strictly positive dwell times in sector 4.
C6_Witness ==
    /\ Encoded
    /\ y.sector = 4
    /\ R3Sign(y.T1) > 0
    /\ R3Sign(y.T2) > 0
    /\ R3Sign(y.Tz) > 0
    /\ R3Near(R3Add(R3Add(y.T1, y.T2), y.Tz), R3Int(Ts))

C8_ZeroVectorEndToEnd ==
    (Encoded /\ Vqd = [q |-> 0, d |-> 0]) =>
        /\ lim.q = 0
        /\ lim.d = 0
        /\ lim.index = NoLookup
        /\ IsZero(park.y0)
        /\ IsZero(park.y1)
        /\ y.MiZero
        /\ IsZero(y.T1)
        /\ IsZero(y.T2)
        /\ R3Eq(y.Tz, R3Int(Ts))
        /\ y.sector = 1
        /\ \A i \in 1..3 : R3Eq(Thresholds[i], R3(Ts, 0, 2))

\* The zero vector at 270 degrees, where cos(theta) is a negative rounded
\* zero and sin(theta) is -1: both rotator outputs are negative zeros,
\* atan2 gives -180 degrees and the final else selects sector 1.
C8_Witness ==
    /\ Encoded
    /\ Vqd = [q |-> 0, d |-> 0]
    /\ park.theta = 9
    /\ park.y0.nz
    /\ park.y1.nz
    /\ y.T1.nz
    /\ y.T2.nz
    /\ y.deg = -180
    /\ y.sector = 1
    /\ R3Eq(y.Tz, R3Int(Ts))

---------------------------------------------------------------------------
(* Properties of the carrier under a pulse train (specification SpecPulse) *)

\* C11: with a 0/1 pulse train of 50% duty and period P at the secondary
\* input (high during the first half of each period), the carrier's rate
\* of change in every tick is +0.5 (pulse high) or -0.5 (pulse low), the
\* scaled ramp 4*x[0] stays between 0 and P at every tick and reaches P at
\* the middle of each period, and the carrier is back at 0 at the end of
\* every full period.
C11_PulseTrainCarrier ==
    /\ [](/\ ~R3Gt(R3Int(0), Ramp(x))
          /\ ~R3Gt(Ramp(x), R3Int(period))
          /\ Encoded =>
                /\ R3Eq(y.ramp, Ramp(x))
                /\ ~R3Gt(R3Int(0), y.ramp)
                /\ ~R3Gt(y.ramp, R3Int(period))
          /\ (now % period = 0) => IsZero(x)
          /\ (2 * (now % period) = period) => R3Eq(Ramp(x), R3Int(period)))
    /\ [][(pc = "integrate") =>
             /\ mdlDerivatives(R3Int(u1')) \in {R3(1, 0, 2), R3(-1, 0, 2)}
             /\ u1' = PulseTrain(now, period)
             /\ R3Eq(R3Sub(x', x),
                     IF u1' = 1 THEN R3(dt', 0, 2) ELSE R3(-dt', 0, 2))]_vars

\* The end of the last followed period of a pulse train of period 4: the
\* carrier has come back to 0 after falling during the second half.
C11_Witness ==
    /\ period = 4
    /\ now = MaxPeriods * period
    /\ pc = "svpwm"
    /\ u1 = 0
    /\ IsZero(x)
    /\ R3Eq(y.ramp, R3Int(2))

---------------------------------------------------------------------------
(* Switching patterns (specification Spec) *)

\* The on/off pattern of (U, V, W): a phase is on when its level is not 0.
Pattern == [i \in 1..3 |-> IF Phases[i] # 0 THEN 1 ELSE 0]

\* The two active vectors adjacent to a sector.
AdjacentVectors(n) ==
    CASE n = 1 -> {<<1, 0, 0>>, <<1, 1, 0>>}
      [] n = 2 -> {<<1, 1, 0>>, <<0, 1, 0>>}
      [] n = 3 -> {<<0, 1, 0>>, <<0, 1, 1>>}
      [] n = 4 -> {<<0, 1, 1>>, <<0, 0, 1>>}
      [] n = 5 -> {<<0, 0, 1>>, <<1, 0, 1>>}
      [] n = 6 -> {<<1, 0, 1>>, <<1, 0, 0>>}
      [] OTHER -> {}

\* Which of ta, tb, tc, td each phase is given in the sector selected.
GivenThreshold == GateTimes(y.sector, "ta", "tb", "tc", "td")

=============================================================================
